---- MODULE Spec2Model ----
(***************************************************************************)
(* Model of omero_slurm_client.SlurmClient: the batching of shell commands *)
(* over one remote channel, the splitting of the combined output, and the  *)
(* parsing of job ids, job lists and progress from the returned text.      *)
(*                                                                         *)
(* Text is a sequence of one-character strings.  A command is a record     *)
(* [text, out, rc]: the rendered command, and what the remote side prints  *)
(* on stdout and exits with when that command runs.                        *)
(***************************************************************************)
EXTENDS Integers, Sequences, FiniteSets, TLC

(* ------------------------------ bounds --------------------------------- *)
MaxCmds == 3       \* longest cmdlist handed to run_commands(_split_out)
MaxListLen == 3    \* longest sacct listing output, in characters
MaxLogLen == 4     \* longest tailed log text, in characters
MaxParts == 4      \* most pieces an sbatch output text is built from

(* --------------------------- program constants ------------------------- *)
OUT_SEP == <<"-", "-", "s", "p", "l", "i", "t", "-", "-">>
AND_SEP == " && "
SPLIT_SEP == " ; echo --split-- ; "
JOB_MARKER ==
  <<"S","u","b","m","i","t","t","e","d"," ","b","a","t","c","h"," ","j","o","b">>
NOT_FOUND == -1
NoneValue == "None"

Digits == {"0", "1", "2", "3", "4", "5", "6", "7", "8", "9"}
Whitespace == {" ", "\n"}

\* dict.get(key): the value, or None when the key is absent
get(d, k) == IF k \in DOMAIN d THEN d[k] ELSE NoneValue

(* ----------------------------- str methods ----------------------------- *)
\* t[i..] starts with p
StartsWithAt(t, p, i) ==
  /\ i + Len(p) - 1 <= Len(t)
  /\ SubSeq(t, i, i + Len(p) - 1) = p

\* str.split(sep): cut at the leftmost occurrences, left to right, keeping
\* empty pieces; start is where the current piece begins, i the scan position
RECURSIVE SplitFrom(_, _, _, _)
SplitFrom(t, s, start, i) ==
  IF i + Len(s) - 1 > Len(t)
    THEN << SubSeq(t, start, Len(t)) >>
    ELSE IF StartsWithAt(t, s, i)
      THEN << SubSeq(t, start, i - 1) >>
             \o SplitFrom(t, s, i + Len(s), i + Len(s))
      ELSE SplitFrom(t, s, start, i + 1)

\* a split that drops empty pieces, as str.split() without a separator does
split_dropping_empty(t, s) == SelectSeq(SplitFrom(t, s, 1, 1), LAMBDA x : x # <<>>)

split(t, s) == SplitFrom(t, s, 1, 1)

\* str.strip(): drop leading and trailing whitespace
RECURSIVE lstrip(_)
lstrip(t) ==
  IF t # <<>> /\ Head(t) \in Whitespace THEN lstrip(Tail(t)) ELSE t

RECURSIVE rstrip(_)
rstrip(t) ==
  IF t # <<>> /\ t[Len(t)] \in Whitespace
    THEN rstrip(SubSeq(t, 1, Len(t) - 1)) ELSE t

strip(t) == rstrip(lstrip(t))

\* str.isdigit(): non-empty and digits only
isdigit(t) == t # <<>> /\ \A i \in 1..Len(t) : t[i] \in Digits

DigitValue(c) ==
  CASE c = "0" -> 0 [] c = "1" -> 1 [] c = "2" -> 2 [] c = "3" -> 3
    [] c = "4" -> 4 [] c = "5" -> 5 [] c = "6" -> 6 [] c = "7" -> 7
    [] c = "8" -> 8 [] c = "9" -> 9

\* int(s) of a digit string
RECURSIVE int(_)
int(t) ==
  IF t = <<>> THEN 0
  ELSE 10 * int(SubSeq(t, 1, Len(t) - 1)) + DigitValue(t[Len(t)])

\* list.reverse()
reverse(l) == [i \in 1..Len(l) |-> l[Len(l) + 1 - i]]

\* re.findall(r"\d+%", t): the non-overlapping matches, scanning left to
\* right; at each position the digit run is taken greedily and must be
\* followed by a percent sign
RECURSIVE DigitRunEnd(_, _)
DigitRunEnd(t, i) ==
  IF i <= Len(t) /\ t[i] \in Digits THEN DigitRunEnd(t, i + 1) ELSE i

RECURSIVE FindallFrom(_, _)
FindallFrom(t, i) ==
  IF i > Len(t) THEN <<>>
  ELSE LET e == DigitRunEnd(t, i)
       IN IF e > i /\ e <= Len(t) /\ t[e] = "%"
            THEN << SubSeq(t, i, e) >> \o FindallFrom(t, e + 1)
            ELSE FindallFrom(t, i + 1)

findall(t) == FindallFrom(t, 1)

\* str.endswith(suffix), on a string
endswith(s, suffix) ==
  Len(s) >= Len(suffix) /\ SubSeq(s, Len(s) - Len(suffix) + 1, Len(s)) = suffix

(* -------------------------------- from_config -------------------------- *)
suffix_repo == "_repo"
suffix_image == "_image"
suffix_job == "_job"

\* k[:-len(suffix)]
without_suffix(k, suffix) == SubSeq(k, 1, Len(k) - Len(suffix))

\* a chain without its last elif: a key ending in _job is taken as a path
key_branch_without_job(k) ==
  IF endswith(k, suffix_repo) THEN "repo"
  ELSE IF endswith(k, suffix_image) THEN "image"
  ELSE "path"

\* the branch of the if/elif chain a key of the MODELS section takes
key_branch(k) ==
  IF endswith(k, suffix_repo) THEN "repo"
  ELSE IF endswith(k, suffix_image) THEN "image"
  ELSE IF endswith(k, suffix_job) THEN "job"
  ELSE "path"

\* the map one branch fills: the key without its suffix -> the value
from_config_map(md, branch, suffix) ==
  LET ks == { k \in DOMAIN md : key_branch(k) = branch }
  IN [n \in { without_suffix(k, suffix) : k \in ks } |-> md[n \o suffix]]

from_config_paths(md) == from_config_map(md, "path", "")
from_config_repos(md) == from_config_map(md, "repo", suffix_repo)
from_config_images(md) == from_config_map(md, "image", suffix_image)
from_config_jobs(md) == from_config_map(md, "job", suffix_job)

(* ------------------------- command rendering --------------------------- *)
DEFAULT_SLURM_DATA_PATH == "my-scratch/data"
DEFAULT_SLURM_IMAGES_PATH == "my-scratch/singularity_images/workflows"
DEFAULT_SLURM_GIT_SCRIPT_PATH == "slurm-scripts"

\* str.format on the class's command templates
VERSION_CMD(slurm_images_path, image_path) ==
  "ls -h " \o slurm_images_path \o "/" \o image_path
    \o " | grep -oP '(?<=-)v.+(?=.simg)'"

DATA_CMD(slurm_data_path) ==
  "ls -h " \o slurm_data_path \o " | grep -oP '.+(?=.zip)'"

ALL_JOBS_CMD(start_time, end_time, states, columns) ==
  "sacct --starttime " \o start_time \o " --endtime " \o end_time
    \o " --state " \o states \o " -o " \o columns \o " -n -X "

LOGFILE(slurm_job_id) == "omero-" \o slurm_job_id \o ".log"

TAIL_LOG_CMD(n, log_file) == "tail -n " \o n \o " " \o log_file \o " | strings"

get_recent_log_command(log_file) == TAIL_LOG_CMD("10", log_file)

get_jobs_info_command(start_time, states) ==
  ALL_JOBS_CMD(start_time, "now", states, "JobId")

\* the mail fragment made to depend on time, the slip of a copied line
get_cellpose_command_copied(email, time) ==
  LET email_param == IF time = NoneValue THEN "" ELSE " --mail-user=" \o email
      time_param == IF time = NoneValue THEN "" ELSE " --time=" \o time
  IN "sbatch" \o time_param \o email_param \o " --output=omero-%4j.log "
       \o DEFAULT_SLURM_GIT_SCRIPT_PATH \o "/jobs/" \o "cellpose.sh"

\* get_cellpose_command: the sbatch command with its optional fragments
get_cellpose_command(email, time) ==
  LET email_param == IF email = NoneValue THEN "" ELSE " --mail-user=" \o email
      time_param == IF time = NoneValue THEN "" ELSE " --time=" \o time
  IN "sbatch" \o time_param \o email_param \o " --output=omero-%4j.log "
       \o DEFAULT_SLURM_GIT_SCRIPT_PATH \o "/jobs/" \o "cellpose.sh"

(* ------------------------- the remote file system ---------------------- *)
\* position of the last "/" of a path, 0 if it has none
RECURSIVE LastSlash(_, _)
LastSlash(p, i) ==
  IF i = 0 THEN 0
  ELSE IF SubSeq(p, i, i) = "/" THEN i ELSE LastSlash(p, i - 1)

\* the directory a path lies in; "." for a path without "/"
dirname(p) ==
  LET i == LastSlash(p, Len(p)) IN IF i = 0 THEN "." ELSE SubSeq(p, 1, i - 1)

\* mkdir without -p, one operand: the directory is made unless the path
\* exists already or the directory it lies in does not exist
mkdir_ok(f, p) == p \notin f /\ dirname(p) \in f

\* mkdir goes through all its operands, whether or not one fails
RECURSIVE mkdir(_, _)
mkdir(f, operands) ==
  IF operands = <<>> THEN f
  ELSE mkdir(IF mkdir_ok(f, Head(operands)) THEN f \cup {Head(operands)} ELSE f,
             Tail(operands))

\* and exits with 1 if it could not make one of them
RECURSIVE mkdir_status(_, _)
mkdir_status(f, operands) ==
  IF operands = <<>> THEN 0
  ELSE IF ~mkdir_ok(f, Head(operands)) THEN 1
  ELSE mkdir_status(f \cup {Head(operands)}, Tail(operands))

(* ------------------------- sbatch's file name pattern ------------------ *)
\* the file name pattern of the submit command's --output option
OUTPUT_PATTERN == "omero-%4j.log"

RECURSIVE FirstPercent(_, _)
FirstPercent(p, i) ==
  IF i > Len(p) THEN 0
  ELSE IF SubSeq(p, i, i) = "%" THEN i ELSE FirstPercent(p, i + 1)

RECURSIVE ZeroPad(_, _)
ZeroPad(digits, width) ==
  IF Len(digits) >= width THEN digits ELSE ZeroPad("0" \o digits, width)

\* the file a job writes under a pattern with one %<width>j: the job id,
\* padded with zeros to the width
slurm_filename(pattern, job_id) ==
  LET i == FirstPercent(pattern, 1)
      width == DigitValue(SubSeq(pattern, i + 1, i + 1))
  IN SubSeq(pattern, 1, i - 1) \o ZeroPad(ToString(job_id), width)
       \o SubSeq(pattern, i + 3, Len(pattern))

(* --------------------------- the remote channel ------------------------ *)
EchoSep == [text |-> "echo --split--", out |-> OUT_SEP \o << "\n" >>, rc |-> 0]

\* a join that puts ";" where the fail-fast separator belongs
join_unconditional(cmdlist, sep) ==
  [k \in 1..Len(cmdlist) |->
     [conn |-> IF k = 1 THEN "" ELSE ";", cmd |-> cmdlist[k], src |-> k]]

\* sep.join(cmdlist) as the remote shell reads it: the list of simple
\* commands, each with the connective in front of it and the index of the
\* cmdlist entry it came from (0 for the echo the split separator inserts)
join(cmdlist, sep) ==
  IF sep = AND_SEP
    THEN [k \in 1..Len(cmdlist) |->
            [conn |-> IF k = 1 THEN "" ELSE "&&", cmd |-> cmdlist[k], src |-> k]]
    ELSE [k \in 1..(IF cmdlist = <<>> THEN 0 ELSE 2 * Len(cmdlist) - 1) |->
            IF k % 2 = 1
              THEN [conn |-> IF k = 1 THEN "" ELSE ";",
                    cmd |-> cmdlist[(k + 1) \div 2], src |-> (k + 1) \div 2]
              ELSE [conn |-> ";", cmd |-> EchoSep, src |-> 0]]

NoResult == [stdout |-> <<>>, exited |-> 0, ok |-> TRUE]
NoOutcome ==
  [kind |-> "none", error |-> "", res |-> NoResult,
   list |-> <<>>, num |-> 0, str |-> <<>>, dict |-> << >>]

VARIABLES
  models_dict,        \* the MODELS section the client was configured from
  slurm_model_paths,  \* registry: model name -> image directory
  slurm_model_repos,  \* registry: model name -> git repository
  slurm_model_images, \* registry: model name -> container image
  slurm_model_jobs,   \* registry: model name -> job script
  fs,                 \* remote paths that exist, as far as the call touches them
  pc,                 \* "idle", "remote" (the channel is executing), "done"
  op,                 \* the client method being executed
  arg,                \* its argument (model name, job id, archive name, or
                      \* the pair of email and time), "" if none
  cmdlist,            \* the commands of the batch in flight
  compound,           \* the joined command as the remote shell reads it
  warn,               \* run's warn option: return failures or raise them
  idx,                \* next simple command of the compound
  ran,                \* indices of cmdlist entries the shell has run
  stdout,             \* remote stdout so far
  exited,             \* exit status of the compound so far
  sent,               \* channel round trips made by the current call
  outcome             \* what the call gave its caller

\* what from_config sets and no method changes
config == << models_dict, slurm_model_paths, slurm_model_repos,
             slurm_model_images, slurm_model_jobs >>

vars == << config, fs, pc, op, arg, cmdlist, compound, warn, idx, ran,
           stdout, exited, sent, outcome >>

(* ------------------------------- inputs -------------------------------- *)
SeqUpTo(S, n) == UNION { [1..k -> S] : k \in 0..n }

RECURSIVE Concat(_)
Concat(parts) == IF parts = <<>> THEN <<>> ELSE Head(parts) \o Concat(Tail(parts))

\* what one command of a batch may print: nothing, a line, an unfinished
\* line, the separator text itself, and text ending like the separator starts
BatchOuts ==
  { <<>>, <<"a">>, <<"b", "\n">>, OUT_SEP, <<"-", "-", "s", "p", "l", "i", "t">> }
BatchCmds == [text : {"cmd"}, out : BatchOuts, rc : {0, 1}]

\* sacct -o JobId output: job ids, padding blanks, line ends
ListOuts == SeqUpTo({"1", "2", " ", "\n"}, MaxListLen)
\* tailed log text
LogOuts == SeqUpTo({"4", "9", "%", "x"}, MaxLogLen)
\* sbatch output
SbatchOuts ==
  { Concat(ps) : ps \in SeqUpTo({JOB_MARKER, <<"1">>, <<"2">>, <<" ">>, <<"x">>},
                                MaxParts) }

Models == {"cellpose", "stardist"}
\* model names that meet the suffix convention and the key 'data' head-on
OddModels == {"data", "my_job"}
Attributes == {"path", "repo", "image", "job"}

\* the key and the value a MODELS section holds for an attribute of a model
KeyOf(m, a) == IF a = "path" THEN m ELSE m \o "_" \o a
ValueOf(m, a) ==
  CASE a = "path" -> m \o "_dir"
    [] a = "repo" -> "https://git/" \o m
    [] a = "image" -> "docker/" \o m
    [] a = "job" -> "jobs/" \o m \o ".sh"

\* the MODELS section that registers the attributes reg[m] of each model m
ConfigOf(reg) ==
  LET pairs == { p \in (DOMAIN reg) \X Attributes : p[2] \in reg[p[1]] }
  IN [k \in { KeyOf(p[1], p[2]) : p \in pairs } |->
        LET p == CHOOSE q \in pairs : KeyOf(q[1], q[2]) = k
        IN ValueOf(p[1], p[2])]

\* a model is registered with all four attributes, or with its path alone
Configs == { ConfigOf([m \in D |-> Attributes]) : D \in SUBSET Models }
OddConfigs ==
  { ConfigOf(reg) :
      reg \in [{"cellpose"} \cup OddModels -> {{}, {"path"}, Attributes}] }
JobIds == {"7", "12345"}
\* the same job ids as the numbers extract_job_id produces
JobNumbers == {7, 12345}
ListOps == {"list_active_jobs", "list_completed_jobs", "list_all_jobs"}

(* ------------------------------- Init ---------------------------------- *)
\* the client as from_config builds it from the MODELS section md
Configured(md) ==
  /\ models_dict = md
  /\ slurm_model_paths = from_config_paths(md)
  /\ slurm_model_repos = from_config_repos(md)
  /\ slurm_model_images = from_config_images(md)
  /\ slurm_model_jobs = from_config_jobs(md)

Idle ==
  /\ fs = {}
  /\ pc = "idle"
  /\ op = ""
  /\ arg = ""
  /\ cmdlist = <<>>
  /\ compound = <<>>
  /\ warn = FALSE
  /\ idx = 1
  /\ ran = {}
  /\ stdout = <<>>
  /\ exited = 0
  /\ sent = 0
  /\ outcome = NoOutcome

Init ==
  /\ \E md \in Configs : Configured(md)
  /\ Idle

\* the client configured with model names of every kind
InitOdd ==
  /\ \E md \in OddConfigs : Configured(md)
  /\ Idle

(* --------------------- Connection.run, seen from here ------------------- *)
\* self.run(cmd, env=env, **kwargs) with cmd = sep.join(cmdlist): the
\* compound goes to the remote shell
run(o, a, cl, sep, w) ==
  /\ pc' = "remote"
  /\ op' = o
  /\ arg' = a
  /\ cmdlist' = cl
  /\ compound' = join(cl, sep)
  /\ warn' = w
  /\ idx' = 1
  /\ ran' = {}
  /\ stdout' = <<>>
  /\ exited' = 0
  /\ sent' = 1
  /\ outcome' = NoOutcome
  /\ UNCHANGED << config, fs >>

\* the remote shell takes the next simple command of the compound: after
\* "&&" it runs only if the status so far is 0, after ";" it always runs
RemoteStep ==
  /\ pc = "remote"
  /\ idx <= Len(compound)
  /\ LET item == compound[idx]
         is_mkdir == "operands" \in DOMAIN item.cmd
     IN IF item.conn = "&&" /\ exited # 0
          THEN UNCHANGED << ran, stdout, exited, fs >>
          ELSE /\ ran' = IF item.src = 0 THEN ran ELSE ran \cup {item.src}
               /\ stdout' = stdout \o item.cmd.out
               /\ exited' = IF is_mkdir THEN mkdir_status(fs, item.cmd.operands)
                                        ELSE item.cmd.rc
               /\ fs' = IF is_mkdir THEN mkdir(fs, item.cmd.operands) ELSE fs
  /\ idx' = idx + 1
  /\ UNCHANGED << config, pc, op, arg, cmdlist, compound, warn, sent, outcome >>

\* the compound has finished and run comes back
Finished(o) == pc = "remote" /\ op = o /\ idx > Len(compound)

\* run raises UnexpectedExit on a non-zero exit status unless its warn
\* option is set (by configuration or through run_commands' **kwargs); with
\* warn it hands back the result, whose ok is then false
RunRaises == exited # 0 /\ ~warn
Result == [stdout |-> stdout, exited |-> exited, ok |-> exited = 0]

Returned(field, v) == [NoOutcome EXCEPT !.kind = "returned", ![field] = v]
Raised(e) == [NoOutcome EXCEPT !.kind = "raised", !.error = e]

Finish(o) ==
  /\ pc' = "done"
  /\ outcome' = o
  /\ UNCHANGED << config, fs, op, arg, cmdlist, compound, warn, idx,
                  ran, stdout, exited, sent >>

(* ------------------------------ run_commands --------------------------- *)
run_commands_call ==
  /\ pc = "idle"
  /\ \E cl \in SeqUpTo(BatchCmds, MaxCmds), w \in BOOLEAN :
       run("run_commands", "", cl, AND_SEP, w)

\* the text handled here is ASCII, which print() takes as it is: the
\* re-encoding branch for UnicodeEncodeError leaves such text unchanged
run_commands_outcome ==
  IF RunRaises THEN Raised("UnexpectedExit") ELSE Returned("res", Result)

run_commands_return ==
  /\ Finished("run_commands")
  /\ Finish(run_commands_outcome)

(* ------------------------- run_commands_split_out ---------------------- *)
run_commands_split_out_call ==
  /\ pc = "idle"
  /\ \E cl \in SeqUpTo(BatchCmds, MaxCmds), w \in BOOLEAN :
       run("run_commands_split_out", "", cl, SPLIT_SEP, w)

\* splitting the output without looking at result.ok
run_commands_split_out_unchecked ==
  IF RunRaises THEN Raised("UnexpectedExit")
  ELSE Returned("list", split(Result.stdout, OUT_SEP))

run_commands_split_out_outcome ==
  IF RunRaises THEN Raised("UnexpectedExit")
  ELSE IF Result.ok THEN Returned("list", split(Result.stdout, OUT_SEP))
  ELSE Raised("SSHException")

run_commands_split_out_return ==
  /\ Finished("run_commands_split_out")
  /\ Finish(run_commands_split_out_outcome)

(* ------------------------------- list jobs ----------------------------- *)
\* the command each of the three listing methods renders
list_jobs_command(o) ==
  CASE o = "list_active_jobs" -> get_jobs_info_command("now", "r")
    [] o = "list_completed_jobs" -> get_jobs_info_command("2023-01-01", "cd")
    [] o = "list_all_jobs" ->
         get_jobs_info_command("2023-01-01", "r,cd,f,to,rs,dl,nf")

list_jobs_call ==
  /\ pc = "idle"
  /\ \E o \in ListOps, out \in ListOuts, rc \in {0, 1}, w \in BOOLEAN :
       run(o, "", << [text |-> list_jobs_command(o), out |-> out, rc |-> rc] >>,
           AND_SEP, w)

\* job_list = result.stdout.strip().split('\n'); job_list.reverse()
job_list(out) == reverse(split(strip(out), << "\n" >>))

list_jobs_outcome ==
  IF RunRaises THEN Raised("UnexpectedExit")
  ELSE Returned("list", job_list(Result.stdout))

list_jobs_return ==
  /\ \E o \in ListOps : Finished(o)
  /\ Finish(list_jobs_outcome)

(* ------------------------ get_active_job_progress ---------------------- *)
get_active_job_progress_call ==
  /\ pc = "idle"
  /\ \E j \in JobIds, out \in LogOuts, rc \in {0, 1}, w \in BOOLEAN :
       run("get_active_job_progress", j,
           << [text |-> get_recent_log_command(LOGFILE(j)),
               out |-> out, rc |-> rc] >>,
           AND_SEP, w)

ProgressPrefix == << "P", "r", "o", "g", "r", "e", "s", "s", ":", " " >>

\* taking the first match, [0], instead of the last
first_match(matches) == matches[1]

\* re.findall(pattern, result.stdout)[-1]
latest_match(matches) == matches[Len(matches)]

\* Both try blocks swallow their exception and go on.  The local `result`
\* is bound only if run_commands returned, `latest_progress` only if
\* findall found a match; the final return reads latest_progress.
get_active_job_progress_outcome ==
  LET result_bound == ~RunRaises
      matches == IF result_bound THEN findall(Result.stdout) ELSE <<>>
      latest_progress_bound == result_bound /\ matches # <<>>
  IN IF latest_progress_bound
       THEN Returned("str", ProgressPrefix \o latest_match(matches) \o << "\n" >>)
       ELSE Raised("UnboundLocalError")

get_active_job_progress_return ==
  /\ Finished("get_active_job_progress")
  /\ Finish(get_active_job_progress_outcome)

(* ----------------------------- extract_job_id -------------------------- *)
\* next((int(s.strip()) for s in stdout.split("Submitted batch job")
\*       if s.strip().isdigit()), -1)
RECURSIVE FirstDigitPiece(_)
FirstDigitPiece(pieces) ==
  IF pieces = <<>> THEN NOT_FOUND
  ELSE IF isdigit(strip(Head(pieces))) THEN int(strip(Head(pieces)))
  ELSE FirstDigitPiece(Tail(pieces))

extract_job_id(out) == FirstDigitPiece(split(out, JOB_MARKER))

\* the function applied to a Result, as SlurmClient.extract_job_id(result)
extract_job_id_call ==
  /\ pc = "idle"
  /\ \E out \in SbatchOuts :
       /\ pc' = "done"
       /\ op' = "extract_job_id"
       /\ stdout' = out
       /\ outcome' = Returned("num", extract_job_id(out))
  /\ UNCHANGED << config, fs, arg, cmdlist, compound, warn, idx, ran,
                  exited, sent >>

(* -------------------------------- run_cellpose ------------------------- *)
Emails == {NoneValue, "a@b.c"}
Times == {NoneValue, "02:00:00"}

run_cellpose_call ==
  /\ pc = "idle"
  /\ \E email \in Emails, time \in Times, out \in SbatchOuts, rc \in {0, 1},
        w \in BOOLEAN :
       run("run_cellpose", << email, time >>,
           << [text |-> get_cellpose_command(email, time),
               out |-> out, rc |-> rc] >>,
           AND_SEP, w)

\* extract_job_id is declared in the class body with the one parameter
\* `result`; self.extract_job_id(res) passes self and res
extract_job_id_parameters == 1
bound_call_arguments(n) == n + 1

run_cellpose_outcome ==
  IF RunRaises THEN Raised("UnexpectedExit")
  ELSE IF bound_call_arguments(1) # extract_job_id_parameters
    THEN Raised("TypeError")
  ELSE [NoOutcome EXCEPT !.kind = "returned", !.res = Result,
                         !.num = extract_job_id(Result.stdout)]

run_cellpose_return ==
  /\ Finished("run_cellpose")
  /\ Finish(run_cellpose_outcome)

(* ------------------- get_image_versions_and_data_files ----------------- *)
VersionOuts == { <<>>, <<"v", "1", "\n">>, <<"v", "1", "\n", "v", "2", "\n">> }
DataOuts == { <<>>, <<"d", "\n">> }

\* self.slurm_model_paths.get(model) never raises KeyError; the except
\* branch with the ValueError is not taken for any model
get_image_versions_and_data_files_cmdlist(model) ==
  LET image_path == get(slurm_model_paths, model)
  IN << VERSION_CMD(DEFAULT_SLURM_IMAGES_PATH, image_path),
        DATA_CMD(DEFAULT_SLURM_DATA_PATH) >>

get_image_versions_and_data_files_call ==
  /\ pc = "idle"
  /\ \E model \in Models \cup {"unknown"}, vo \in VersionOuts, do \in DataOuts,
        vrc \in {0, 1}, drc \in {0, 1}, w \in BOOLEAN :
       LET cl == get_image_versions_and_data_files_cmdlist(model)
       IN run("get_image_versions_and_data_files", model,
              << [text |-> cl[1], out |-> vo, rc |-> vrc],
                 [text |-> cl[2], out |-> do, rc |-> drc] >>,
              SPLIT_SEP, w)

\* [response.strip().split('\n') for response in response_list]
lines_of(response_list) ==
  [i \in 1..Len(response_list) |-> split(strip(response_list[i]), << "\n" >>)]

get_image_versions_and_data_files_outcome ==
  LET r == run_commands_split_out_outcome
  IN IF r.kind = "raised" THEN r
     ELSE IF Len(r.list) < 2 THEN Raised("IndexError")
     ELSE Returned("list", SubSeq(lines_of(r.list), 1, 2))

get_image_versions_and_data_files_return ==
  /\ Finished("get_image_versions_and_data_files")
  /\ Finish(get_image_versions_and_data_files_outcome)

(* ----------------- get_all_image_versions_and_data_files --------------- *)
\* the characters of the listings, in code point order
CodePoints == << "\n", "-", "1", "2", "d", "i", "l", "p", "s", "t", "v" >>
ord(c) == CHOOSE i \in 1..Len(CodePoints) : CodePoints[i] = c

\* a < b on str: by the first character that differs, a prefix first
RECURSIVE str_less(_, _)
str_less(a, b) ==
  IF b = <<>> THEN FALSE
  ELSE IF a = <<>> THEN TRUE
  ELSE IF Head(a) # Head(b) THEN ord(Head(a)) < ord(Head(b))
  ELSE str_less(Tail(a), Tail(b))

\* sorted(lines, reverse=True)
RECURSIVE sorted_reverse(_)
sorted_reverse(lines) ==
  IF lines = <<>> THEN <<>>
  ELSE LET i == CHOOSE j \in 1..Len(lines) :
                  /\ \A k \in 1..Len(lines) : ~str_less(lines[j], lines[k])
                  /\ \A k \in 1..(j - 1) : lines[k] # lines[j]
       IN << lines[i] >> \o
            sorted_reverse(SubSeq(lines, 1, i - 1)
                             \o SubSeq(lines, i + 1, Len(lines)))

\* a dict keeps the order in which its keys were inserted: the order of the
\* MODELS section, which is taken to list the models in this order
SectionOrder == << "cellpose", "stardist", "data", "my_job" >>
keys(d) == SelectSeq(SectionOrder, LAMBDA n : n \in DOMAIN d)

get_all_image_versions_and_data_files_cmdlist ==
  LET ks == keys(slurm_model_paths)
  IN [i \in 1..(Len(ks) + 1) |->
        IF i <= Len(ks)
          THEN VERSION_CMD(DEFAULT_SLURM_IMAGES_PATH, slurm_model_paths[ks[i]])
          ELSE DATA_CMD(DEFAULT_SLURM_DATA_PATH)]

\* what the listings can print: nothing, versions in the order of ls, and a
\* file name that has the separator text in it
AllVersionOuts ==
  VersionOuts \cup
    { << "v", "-", "-", "s", "p", "l", "i", "t", "-", "-", "\n" >> }
AllDataOuts == DataOuts \cup { << "d", "2", "\n", "d", "1", "\n" >> }

\* the status of "ls ... | grep -oP ...": that of grep, 1 when it selected
\* no line (also when ls failed and printed nothing), else 0
grep_status(out) == IF out = <<>> THEN 1 ELSE 0

get_all_image_versions_and_data_files_call ==
  /\ pc = "idle"
  /\ LET cl == get_all_image_versions_and_data_files_cmdlist
         n == Len(cl)
     IN \E outs \in [1..n -> AllVersionOuts \cup AllDataOuts], w \in BOOLEAN :
          /\ \A i \in 1..(n - 1) : outs[i] \in AllVersionOuts
          /\ outs[n] \in AllDataOuts
          /\ run("get_all_image_versions_and_data_files", "",
                 [i \in 1..n |-> [text |-> cl[i], out |-> outs[i],
                                  rc |-> grep_status(outs[i])]],
                 SPLIT_SEP, w)

get_all_image_versions_and_data_files_outcome ==
  LET r == run_commands_split_out_outcome
      ks == keys(slurm_model_paths)
      response_list == lines_of(r.list)
  IN IF r.kind = "raised" THEN r
     ELSE IF Len(response_list) < Len(ks) THEN Raised("IndexError")
     ELSE Returned("dict",
            [k \in DOMAIN slurm_model_paths \cup {"data"} |->
               IF k = "data"
                 THEN response_list[Len(response_list)]
                 ELSE LET i == CHOOSE j \in 1..Len(ks) : ks[j] = k
                      IN sorted_reverse(response_list[i])])

get_all_image_versions_and_data_files_return ==
  /\ Finished("get_all_image_versions_and_data_files")
  /\ Finish(get_all_image_versions_and_data_files_outcome)

(* -------------------------------- unpack_data -------------------------- *)
\* the f-string of get_unzip_command continues its lines with a backslash:
\* the blank before it and the indentation of the next line stay in the text
Continuation == "                     "

\* the directories get_unzip_command has mkdir make, in the order written
unzip_directories(zipfile) ==
  LET d == DEFAULT_SLURM_DATA_PATH \o "/" \o zipfile
  IN << d, d \o "/data", d \o "/data/in", d \o "/data/out", d \o "/data/gt" >>

unzip_archive(zipfile) == DEFAULT_SLURM_DATA_PATH \o "/" \o zipfile \o ".zip"

\* the two simple commands of the text, which a ";" separates
unzip_mkdir_text(zipfile) ==
  LET d == unzip_directories(zipfile)
  IN "mkdir " \o d[1] \o Continuation \o d[2] \o Continuation \o d[3]
       \o Continuation \o d[4] \o Continuation \o d[5]

unzip_7z_text(zipfile, filter_filetypes) ==
  "7z e -y -o" \o unzip_directories(zipfile)[3] \o Continuation
    \o unzip_archive(zipfile) \o " "
    \o (IF filter_filetypes = NoneValue THEN "*" ELSE filter_filetypes)

get_unzip_command(zipfile, filter_filetypes) ==
  unzip_mkdir_text(zipfile) \o "; " \o SubSeq(Continuation, 2, Len(Continuation))
    \o unzip_7z_text(zipfile, filter_filetypes)

\* a command whose mkdir leaves out the last directory
unzip_compound_without_gt(zipfile, filter_filetypes, out, rc) ==
  << [conn |-> "", src |-> 1,
      cmd |-> [text |-> unzip_mkdir_text(zipfile), out |-> << >>, rc |-> 0,
               operands |-> SubSeq(unzip_directories(zipfile), 1, 4)]],
     [conn |-> ";", src |-> 1,
      cmd |-> [text |-> unzip_7z_text(zipfile, filter_filetypes),
               out |-> out, rc |-> rc]] >>

\* the command as the remote shell reads it: mkdir with its operands, then,
\* whatever mkdir's status, 7z
unzip_compound(zipfile, filter_filetypes, out, rc) ==
  << [conn |-> "", src |-> 1,
      cmd |-> [text |-> unzip_mkdir_text(zipfile), out |-> << >>, rc |-> 0,
               operands |-> unzip_directories(zipfile)]],
     [conn |-> ";", src |-> 1,
      cmd |-> [text |-> unzip_7z_text(zipfile, filter_filetypes),
               out |-> out, rc |-> rc]] >>

Zipfiles == {"exp1"}
SevenZipOuts == { << >>, << "o", "k", "\n" >> }

\* what may exist remotely before the call: the data directory, the archive
\* in it, and any part of the layout, each inside a directory that exists
RemoteFs(zipfile) ==
  LET all == { DEFAULT_SLURM_DATA_PATH, unzip_archive(zipfile) }
               \cup { unzip_directories(zipfile)[i] : i \in 1..5 }
  IN { f \in SUBSET all :
         \A q \in f : q = DEFAULT_SLURM_DATA_PATH \/ dirname(q) \in f }

\* unpack_data(zipfile): run_commands([get_unzip_command(zipfile)])
unpack_data_call ==
  /\ pc = "idle"
  /\ \E zipfile \in Zipfiles, out \in SevenZipOuts, rc \in {0, 2},
        w \in BOOLEAN : \E f \in RemoteFs(zipfile) :
       /\ (unzip_archive(zipfile) \notin f) => (rc = 2 /\ out = << >>)
       /\ pc' = "remote"
       /\ op' = "unpack_data"
       /\ arg' = zipfile
       /\ cmdlist' = << [text |-> get_unzip_command(zipfile, "*.tiff *.tif"),
                         out |-> out, rc |-> rc] >>
       /\ compound' = unzip_compound(zipfile, "*.tiff *.tif", out, rc)
       /\ warn' = w
       /\ fs' = f
  /\ idx' = 1
  /\ ran' = {}
  /\ stdout' = <<>>
  /\ exited' = 0
  /\ sent' = 1
  /\ outcome' = NoOutcome
  /\ UNCHANGED config

unpack_data_return ==
  /\ Finished("unpack_data")
  /\ Finish(run_commands_outcome)

\* the caller has the outcome; the client is ready for the next call
Return ==
  /\ pc = "done"
  /\ pc' = "idle"
  /\ op' = ""
  /\ arg' = ""
  /\ cmdlist' = <<>>
  /\ compound' = <<>>
  /\ warn' = FALSE
  /\ idx' = 1
  /\ ran' = {}
  /\ stdout' = <<>>
  /\ exited' = 0
  /\ sent' = 0
  /\ outcome' = NoOutcome
  /\ fs' = {}
  /\ UNCHANGED config

Next ==
  \/ run_commands_call
  \/ run_commands_return
  \/ run_commands_split_out_call
  \/ run_commands_split_out_return
  \/ list_jobs_call
  \/ list_jobs_return
  \/ get_active_job_progress_call
  \/ get_active_job_progress_return
  \/ extract_job_id_call
  \/ run_cellpose_call
  \/ run_cellpose_return
  \/ get_image_versions_and_data_files_call
  \/ get_image_versions_and_data_files_return
  \/ get_all_image_versions_and_data_files_call
  \/ get_all_image_versions_and_data_files_return
  \/ unpack_data_call
  \/ unpack_data_return
  \/ RemoteStep
  \/ Return

Spec == Init /\ [][Next]_vars

\* the operations that read the registries, on a client configured with
\* model names of every kind
NextOdd ==
  \/ get_image_versions_and_data_files_call
  \/ get_image_versions_and_data_files_return
  \/ get_all_image_versions_and_data_files_call
  \/ get_all_image_versions_and_data_files_return
  \/ RemoteStep
  \/ Return

SpecOdd == InitOdd /\ [][NextOdd]_vars

(* ======================================================================= *)
(*                               Properties                                *)
(* ======================================================================= *)
SplitDone == op = "run_commands_split_out" /\ pc = "done"

\* the separator text does not start anywhere inside out, not even when out
\* is followed by the separator that the echo prints after it
SepFree(out) ==
  \A p \in 1..Len(out) : ~StartsWithAt(out \o OUT_SEP, OUT_SEP, p)

\* C1 as stated: whenever run_commands_split_out returns, for a list of
\* N >= 0 commands, it returns exactly N segments and segment i is the
\* output of command i
C1_AsStated ==
  (SplitDone /\ outcome.kind = "returned") =>
     /\ Len(outcome.list) = Len(cmdlist)
     /\ \A i \in 1..Len(cmdlist) : outcome.list[i] = cmdlist[i].out

\* C1 amended: for N >= 1 commands none of whose outputs contains the
\* separator text (alone or completed by the echoed separator after it),
\* a successful run_commands_split_out returns exactly N segments; the
\* first is the output of command 1 and segment i > 1 is the line end of the
\* separator echo followed by the output of command i.  For N = 0 it returns
\* one empty segment.
C1_Segments ==
  (SplitDone /\ outcome.kind = "returned") =>
     /\ (cmdlist = <<>>) => outcome.list = << <<>> >>
     /\ (cmdlist # <<>> /\ \A i \in 1..Len(cmdlist) : SepFree(cmdlist[i].out)) =>
          /\ Len(outcome.list) = Len(cmdlist)
          /\ outcome.list[1] = cmdlist[1].out
          /\ \A i \in 2..Len(cmdlist) :
               outcome.list[i] = << "\n" >> \o cmdlist[i].out

C1_Witness ==
  /\ SplitDone /\ outcome.kind = "returned"
  /\ Len(cmdlist) >= 2
  /\ \A i \in 1..Len(cmdlist) : SepFree(cmdlist[i].out)
  /\ cmdlist[1].out = <<>> /\ cmdlist[1].rc = 1
  /\ cmdlist[2].out # <<>>
  /\ Len(outcome.list) = Len(cmdlist)

ExtractDone == op = "extract_job_id" /\ pc = "done"

\* the text has the marker at p, a blank, and then at least one digit
MarkerNumberAt(t, p) ==
  /\ StartsWithAt(t, JOB_MARKER, p)
  /\ p + Len(JOB_MARKER) + 1 <= Len(t)
  /\ t[p + Len(JOB_MARKER)] = " "
  /\ t[p + Len(JOB_MARKER) + 1] \in Digits

HasMarkerNumber(t) == \E p \in 1..Len(t) : MarkerNumberAt(t, p)

\* the number written after the first such marker: its whole digit run
FirstMarkerNumber(t) ==
  LET p == CHOOSE q \in 1..Len(t) :
             MarkerNumberAt(t, q) /\ \A r \in 1..(q - 1) : ~MarkerNumberAt(t, r)
      b == p + Len(JOB_MARKER) + 1
  IN int(SubSeq(t, b, DigitRunEnd(t, b) - 1))

\* C2: for any text that contains the marker followed by a number,
\* whatever precedes the marker or follows the number, extract_job_id
\* returns that number
C2_MarkerNumberReturned ==
  (ExtractDone /\ HasMarkerNumber(stdout)) =>
     outcome.num = FirstMarkerNumber(stdout)

HasMarker(t) == \E p \in 1..Len(t) : StartsWithAt(t, JOB_MARKER, p)

\* C3: for any text without the marker, all-digit text included,
\* extract_job_id returns -1
C3_NoMarkerNotFound ==
  (ExtractDone /\ ~HasMarker(stdout)) => outcome.num = NOT_FOUND

\* C4: run_cellpose sends exactly one fail-fast batch holding the sbatch
\* command and, once the channel has returned the result, returns to its
\* caller the pair (result, job id), the job id being the one extracted
\* from the result's output or -1
C4_SubmitReturnsPair ==
  (op = "run_cellpose") =>
     /\ sent = 1
     /\ Len(compound) = 1
     /\ (pc = "done" /\ ~RunRaises) =>
          /\ outcome.kind = "returned"
          /\ outcome.res = Result
          /\ outcome.num = extract_job_id(stdout)

AllWhitespace(t) == \A i \in 1..Len(t) : t[i] \in Whitespace

\* C5: when the listing output is empty or only whitespace, each of the
\* three listing methods returns a sequence of length 0 and does not raise
C5_EmptyListing ==
  (op \in ListOps /\ pc = "done" /\ ~RunRaises /\ AllWhitespace(stdout)) =>
     /\ outcome.kind = "returned"
     /\ Len(outcome.list) = 0

ProgressDone == op = "get_active_job_progress" /\ pc = "done"

\* the positions of the percent signs that close a match of \d+%
MatchEnds(t) == { j \in 2..Len(t) : t[j] = "%" /\ t[j - 1] \in Digits }

\* the last match in text order: the digit run before the last such percent
\* sign, and the sign
LastMatch(t) ==
  LET j == CHOOSE k \in MatchEnds(t) : \A m \in MatchEnds(t) : m <= k
      i == CHOOSE k \in 1..(j - 1) :
             /\ \A m \in k..(j - 1) : t[m] \in Digits
             /\ (k > 1 => t[k - 1] \notin Digits)
  IN SubSeq(t, i, j)

\* C6: get_active_job_progress never raises: with no match in the log
\* text, or with the remote tail command failing, the caller gets a result
C6_ProgressNeverRaises ==
  (ProgressDone /\ (MatchEnds(stdout) = {} \/ exited # 0)) =>
     outcome.kind = "returned"

\* C7: when the channel returns log text with one or more matches of the
\* pattern, get_active_job_progress reports the last match in text order
C7_LastMatchWins ==
  (ProgressDone /\ ~RunRaises /\ MatchEnds(stdout) # {}) =>
     /\ outcome.kind = "returned"
     /\ outcome.str = ProgressPrefix \o LastMatch(stdout) \o << "\n" >>

C7_Witness ==
  /\ ProgressDone
  /\ stdout = << "4", "%", "9", "%" >>
  /\ outcome.str = ProgressPrefix \o << "9", "%", "\n" >>

Failure(o) == o.kind = "raised" \/ (o.kind = "returned" /\ ~o.res.ok)

\* C8: in fail-fast mode the commands go out as one compound in list order;
\* a command runs only if every command before it ran and succeeded, and if
\* a command failed the caller gets a failure (the raised error or the
\* result that is not ok), with the output left unsplit
C8_FailFast ==
  (op = "run_commands") =>
     /\ sent = 1
     /\ Len(compound) = Len(cmdlist)
     /\ \A k \in 1..Len(cmdlist) : compound[k].cmd = cmdlist[k]
     /\ \A j \in ran : \A i \in 1..(j - 1) : i \in ran /\ cmdlist[i].rc = 0
     /\ (pc = "done" /\ \E i \in ran : cmdlist[i].rc # 0) =>
          /\ Failure(outcome)
          /\ outcome.list = <<>>
     /\ (pc = "done" /\ outcome.kind = "returned") =>
          outcome.res.stdout =
            Concat([i \in 1..Cardinality(ran) |-> cmdlist[i].out])

C8_Witness ==
  /\ op = "run_commands" /\ pc = "done"
  /\ Len(cmdlist) >= 3
  /\ cmdlist[1].rc = 0 /\ cmdlist[2].rc = 1 /\ cmdlist[3].rc = 0
  /\ ran = {1, 2}
  /\ Failure(outcome)

C10_UnknownModelFails ==
  (op = "get_image_versions_and_data_files" /\ arg \notin DOMAIN slurm_model_paths) =>
     /\ sent = 0
     /\ (pc = "done") => (outcome.kind = "raised" /\ outcome.error = "ValueError")

UnpackLayout(zipfile) ==
  { "my-scratch/data/" \o zipfile \o "/data/" \o sub : sub \in {"in", "out", "gt"} }

\* the shell is past mkdir: 7z is the next command to run, or has run
AtExtraction == op = "unpack_data" /\ idx >= 2

\* C11: unpack_data has the directories <data_path>/<name>/data/in, out and
\* gt made before the extraction step runs: from the moment 7z is next to
\* run, and after it, all three exist, whatever part of the layout, the
\* directory <data_path>/<name> included, existed before the call (the data
\* directory that holds the archive exists)
C11_LayoutBeforeExtraction ==
  (AtExtraction /\ DEFAULT_SLURM_DATA_PATH \in fs) => UnpackLayout(arg) \subseteq fs

\* part of the layout existed, so mkdir has exited with 1; the layout is
\* complete all the same and 7z, with its archive there, is next to run
C11_Witness ==
  /\ op = "unpack_data" /\ pc = "remote"
  /\ idx = 2
  /\ exited = 1
  /\ unzip_archive(arg) \in fs
  /\ UnpackLayout(arg) \subseteq fs
  /\ cmdlist[1].text =
       "mkdir my-scratch/data/exp1                     my-scratch/data/exp1/data                     my-scratch/data/exp1/data/in                     my-scratch/data/exp1/data/out                     my-scratch/data/exp1/data/gt;                     7z e -y -omy-scratch/data/exp1/data/in                     my-scratch/data/exp1.zip *.tiff *.tif"
  /\ cmdlist[1].text =
       "mkdir my-scratch/data/exp1                     my-scratch/data/exp1/data                     my-scratch/data/exp1/data/in                     my-scratch/data/exp1/data/out                     my-scratch/data/exp1/data/gt;                     7z e -y -omy-scratch/data/exp1/data/in                     my-scratch/data/exp1.zip *.tiff *.tif"

\* frag occurs in the string s
contains(s, frag) ==
  \E i \in 1..(Len(s) - Len(frag) + 1) : SubSeq(s, i, i + Len(frag) - 1) = frag

\* C12: the sbatch command run_cellpose renders holds --time=<time> if and
\* only if time is not None and --mail-user=<email> if and only if email is
\* not None, in all four combinations, and always ends with
\* --output=omero-%4j.log followed by the path of the job script
C12_OptionalFragments ==
  (op = "run_cellpose") =>
     LET cmd == cmdlist[1].text
         email == arg[1]
         time == arg[2]
     IN /\ contains(cmd, "--time=") <=> (time # NoneValue)
        /\ (time # NoneValue) => contains(cmd, " --time=" \o time \o " ")
        /\ contains(cmd, "--mail-user=") <=> (email # NoneValue)
        /\ (email # NoneValue) => contains(cmd, " --mail-user=" \o email \o " ")
        /\ endswith(cmd, " --output=omero-%4j.log slurm-scripts/jobs/cellpose.sh")
        /\ ~contains(cmd, NoneValue)

C12_Witness ==
  /\ op = "run_cellpose" /\ pc = "done"
  /\ arg = << NoneValue, "02:00:00" >>
  /\ cmdlist[1].text =
       "sbatch --time=02:00:00 --output=omero-%4j.log slurm-scripts/jobs/cellpose.sh"

\* C13: rendering a command template with a required value absent, None
\* included, always fails with an error and never yields a command in which
\* the placeholder is filled with filler text: no command holding the text
\* None goes out, and the call ends with the rendering error
C13_AbsentValueFails ==
  (op = "get_image_versions_and_data_files"
     /\ get(slurm_model_paths, arg) = NoneValue) =>
     /\ \A i \in 1..Len(cmdlist) : ~contains(cmdlist[i].text, NoneValue)
     /\ (pc = "done") =>
          /\ outcome.kind = "raised"
          /\ outcome.error \in {"KeyError", "ValueError"}

\* C14: for every job id, the log file get_active_job_progress tails is the
\* file the submitted job writes its output to under the submit command's
\* --output=omero-%4j.log, job ids of fewer than four digits included
C14_TailedFileIsWritten ==
  (op = "get_active_job_progress") =>
     \A n \in JobNumbers :
        (ToString(n) = arg) =>
           /\ contains(get_cellpose_command(NoneValue, NoneValue),
                       " --output=" \o OUTPUT_PATTERN \o " ")
           /\ cmdlist[1].text =
                get_recent_log_command(slurm_filename(OUTPUT_PATTERN, n))

(* ---------------------------- from_config ------------------------------ *)
MapOf(a) ==
  CASE a = "path" -> slurm_model_paths
    [] a = "repo" -> slurm_model_repos
    [] a = "image" -> slurm_model_images
    [] a = "job" -> slurm_model_jobs

\* the value of key k of the MODELS section is held by the map of a
Placed(k, a) == \E n \in DOMAIN MapOf(a) : MapOf(a)[n] = models_dict[k]

EveryKeyInOneMap ==
  \A k \in DOMAIN models_dict :
     Cardinality({ a \in Attributes : Placed(k, a) }) = 1

\* the MODELS section registers attribute a of model m; the client finds it
\* under the name m in the map of a
Registered(m, a) ==
  /\ KeyOf(m, a) \in DOMAIN models_dict
  /\ models_dict[KeyOf(m, a)] = ValueOf(m, a)

FoundUnderName(m, a) ==
  m \in DOMAIN MapOf(a) /\ MapOf(a)[m] = ValueOf(m, a)

HasSuffix(m) ==
  endswith(m, "_repo") \/ endswith(m, "_image") \/ endswith(m, "_job")

\* C15 as stated: every key of the MODELS section is in exactly one of the
\* four maps, and every registered attribute of every model, model names
\* ending in _repo, _image or _job included, is found under the model's name
C15_AsStated ==
  /\ EveryKeyInOneMap
  /\ \A m \in Models \cup OddModels, a \in Attributes :
        Registered(m, a) => FoundUnderName(m, a)

\* C15 amended: every key of the MODELS section is in exactly one of the
\* four maps, and every registered attribute of a model whose name does not
\* end in _repo, _image or _job is found under the model's name
C15_SuffixConvention ==
  /\ EveryKeyInOneMap
  /\ \A m \in Models \cup OddModels, a \in Attributes :
        (Registered(m, a) /\ ~HasSuffix(m)) => FoundUnderName(m, a)

\* a client configured with all four attributes of cellpose, the path of a
\* model named data and the attributes of a model named my_job
C15_Witness ==
  /\ \A a \in Attributes : Registered("cellpose", a) /\ Registered("my_job", a)
  /\ Registered("data", "path")
  /\ slurm_model_jobs["cellpose"] = ValueOf("cellpose", "job")

(* ---------------- get_all_image_versions_and_data_files ---------------- *)
AllVersionsDone ==
  op = "get_all_image_versions_and_data_files" /\ pc = "done"

\* the lines a command printed: none when it printed nothing
output_lines(out) ==
  LET parts == split(out, << "\n" >>)
  IN IF out = <<>> THEN <<>>
     ELSE IF parts[Len(parts)] = <<>> THEN SubSeq(parts, 1, Len(parts) - 1)
     ELSE parts

\* C16: get_all_image_versions_and_data_files sends one split-output batch
\* of one version command per registered model plus one data command; when
\* the batch succeeds it returns, whether or not a model's command failed or
\* printed nothing, and in the result every model name maps to the output
\* lines of that model's own command and 'data' to those of the data command
C16_OwnOutputLines ==
  AllVersionsDone =>
    LET ks == keys(slurm_model_paths)
        n == Cardinality(DOMAIN slurm_model_paths)
    IN /\ sent = 1
       /\ Len(cmdlist) = n + 1
       /\ \A m \in DOMAIN slurm_model_paths :
             \E i \in 1..n :
                /\ ks[i] = m
                /\ cmdlist[i].text =
                     VERSION_CMD(DEFAULT_SLURM_IMAGES_PATH, slurm_model_paths[m])
       /\ cmdlist[n + 1].text = DATA_CMD(DEFAULT_SLURM_DATA_PATH)
       /\ (exited = 0) => outcome.kind = "returned"
       /\ (outcome.kind = "returned") =>
             /\ \A i \in 1..n :
                   outcome.dict[ks[i]] = output_lines(cmdlist[i].out)
             /\ outcome.dict["data"] = output_lines(cmdlist[n + 1].out)

====
